--------------------------- MODULE Spec2Model ---------------------------
(***************************************************************************)
(* A model of nodemcuload.py: the NodeMCU session object that drives the   *)
(* file system of a NodeMCU Lua interpreter over a serial port.            *)
(*                                                                         *)
(* Bytes are the integers 0..255 and a byte string is a sequence of them.  *)
(* Text (what decode() returns) is a sequence of code points.  The module  *)
(* follows the Python 2 reading of the source, the only one under which    *)
(* repr(b"1234") is '1234' as tests.py expects: str is a byte string,      *)
(* str.encode("utf-8") first decodes it as ASCII.                          *)
(*                                                                         *)
(* The session runs one method at a time; pc is its position inside the    *)
(* method.  Every call of serial.write, read_line and serial.read is one   *)
(* step.  The remote device answers a written command line at the moment   *)
(* it is written: it puts the echo of the line and its response into the   *)
(* receive buffer rx.  The methods are called one after the other on one   *)
(* session, or one of them by a run of main after get_version.             *)
(***************************************************************************)
EXTENDS Integers, Sequences, FiniteSets, TLC

(***************************************************************************)
(* Bounds of the model.                                                    *)
(***************************************************************************)
MaxData == 3        \* longest data given to write_file
MaxBlockSize == 3   \* largest block_size argument
MaxSize == 3        \* largest file on the remote
MaxFiles == 2       \* largest number of directory entries
MaxPre == 2         \* longest text before the terminator in a read_line test
MaxCalls == 1       \* number of methods called in a row
MaxNegative == 3    \* how far below zero read_file's size is followed
MaxNoise == 1       \* number of reads of flush during which more bytes arrive

(***************************************************************************)
(* Characters.                                                             *)
(***************************************************************************)
AsciiChars ==
  <<" ","!","\"","#","$","%","&","'","(",")","*","+",",","-",".","/",
    "0","1","2","3","4","5","6","7","8","9",":",";","<","=",">","?","@",
    "A","B","C","D","E","F","G","H","I","J","K","L","M","N","O","P","Q",
    "R","S","T","U","V","W","X","Y","Z","[","\\","]","^","_","GRAVE",
    "a","b","c","d","e","f","g","h","i","j","k","l","m","n","o","p","q",
    "r","s","t","u","v","w","x","y","z","{","|","}","~">>

\* the code of a printable ASCII character
Ord(c) == 31 + (CHOOSE i \in 1..95 : AsciiChars[i] = c)

\* the byte string of a tuple of printable ASCII characters
Str(s) == [i \in 1..Len(s) |-> Ord(s[i])]

TAB == 9
LF == 10
CR == 13
CRLF == <<CR, LF>>
PROMPT == Str(<<">", " ">>)
NIL == Str(<<"n","i","l">>)
TRUE_ == Str(<<"t","r","u","e">>)
FALSE_ == Str(<<"f","a","l","s","e">>)
QUOTE == Ord("'")
DQUOTE == Ord("\"")
BACKSLASH == Ord("\\")

Min(a, b) == IF a < b THEN a ELSE b

\* Python's max()
Max(a, b) == IF a > b THEN a ELSE b

\* s[n:]
From(s, n) == SubSeq(s, n + 1, Len(s))

\* s[:n] for n >= 0
Upto(s, n) == SubSeq(s, 1, Min(n, Len(s)))

\* s[-2:]
Last2(s) == SubSeq(s, Max(1, Len(s) - 1), Len(s))

\* s[:-2]
DropLast2(s) == SubSeq(s, 1, Len(s) - 2)

StartsWith(s, p) == Len(s) >= Len(p) /\ SubSeq(s, 1, Len(p)) = p

EndsWith(s, p) == Len(s) >= Len(p) /\ SubSeq(s, Len(s) - Len(p) + 1, Len(s)) = p

\* the sequences of ss joined, by halves
RECURSIVE Concat(_)
Concat(ss) ==
  IF ss = <<>> THEN <<>>
  ELSE IF Len(ss) = 1 THEN ss[1]
  ELSE LET h == Len(ss) \div 2
       IN Concat(SubSeq(ss, 1, h)) \o Concat(SubSeq(ss, h + 1, Len(ss)))

\* all sequences over S of length at most n
RECURSIVE SeqsUpTo(_, _)
SeqsUpTo(S, n) ==
  IF n = 0 THEN {<<>>}
  ELSE LET shorter == SeqsUpTo(S, n - 1)
       IN shorter \cup {Append(s, x) : s \in shorter, x \in S}

(***************************************************************************)
(* Conversions of Python.                                                  *)
(***************************************************************************)
Digits == Str(<<"0","1","2","3","4","5","6","7","8","9">>)
HexDigits == Str(<<"0","1","2","3","4","5","6","7","8","9","a","b","c","d","e","f">>)

\* "{}".format(n), str(n) for n >= 0
RECURSIVE IntToStr(_)
IntToStr(n) ==
  IF n < 10 THEN <<Digits[n + 1]>>
  ELSE Append(IntToStr(n \div 10), Digits[(n % 10) + 1])

IsDigit(c) == c >= Ord("0") /\ c <= Ord("9")

IsSpace(c) == c \in {TAB, LF, 11, 12, CR, 32}

RECURSIVE LStrip(_)
LStrip(s) == IF s # <<>> /\ IsSpace(Head(s)) THEN LStrip(Tail(s)) ELSE s

RECURSIVE RStrip(_)
RStrip(s) ==
  IF s # <<>> /\ IsSpace(s[Len(s)]) THEN RStrip(SubSeq(s, 1, Len(s) - 1)) ELSE s

RECURSIVE DigitsValue(_)
DigitsValue(s) ==
  IF s = <<>> THEN 0
  ELSE DigitsValue(SubSeq(s, 1, Len(s) - 1)) * 10 + (s[Len(s)] - Ord("0"))

\* int(s): surrounding white space is ignored, then one or more decimal
\* digits are required (no text of the model carries a sign)
ParseInt(s) ==
  LET t == RStrip(LStrip(s))
  IN IF t # <<>> /\ \A i \in 1..Len(t) : IsDigit(t[i])
     THEN [ok |-> TRUE, value |-> DigitsValue(t)]
     ELSE [ok |-> FALSE, value |-> 0]

IsCont(c) == c >= 128 /\ c <= 191

\* the length of the longest prefix of s that is plain ASCII
AsciiPrefix(s) ==
  IF \A i \in 1..Len(s) : s[i] < 128 THEN Len(s)
  ELSE (CHOOSE i \in 1..Len(s) : s[i] >= 128 /\ \A j \in 1..(i - 1) : s[j] < 128) - 1

\* bytes.decode("utf-8"): the code points, or a UnicodeDecodeError.  A run
\* of ASCII bytes decodes to itself; after it comes a character of two to
\* four bytes.
RECURSIVE Utf8Decode(_)
Utf8Decode(b) ==
  LET k == AsciiPrefix(b)
  IN
  IF k = Len(b) THEN [ok |-> TRUE, text |-> b]
  ELSE
    LET t == From(b, k)
        c == Head(t)
        n == IF c >= 194 /\ c <= 223 THEN 2
             ELSE IF c >= 224 /\ c <= 239 THEN 3
             ELSE IF c >= 240 /\ c <= 244 THEN 4
             ELSE 0
        wellFormed ==
          /\ n > 0
          /\ Len(t) >= n
          /\ \A i \in 2..n : IsCont(t[i])
          /\ (c = 224 => t[2] >= 160)
          /\ (c = 237 => t[2] <= 159)
          /\ (c = 240 => t[2] >= 144)
          /\ (c = 244 => t[2] <= 143)
        cp == IF n = 2 THEN (c - 192) * 64 + (t[2] - 128)
              ELSE IF n = 3 THEN (c - 224) * 4096 + (t[2] - 128) * 64 + (t[3] - 128)
              ELSE (c - 240) * 262144 + (t[2] - 128) * 4096
                   + (t[3] - 128) * 64 + (t[4] - 128)
    IN IF ~wellFormed THEN [ok |-> FALSE, text |-> <<>>]
       ELSE LET r == Utf8Decode(From(t, n))
            IN [ok |-> r.ok,
                text |-> IF r.ok THEN SubSeq(b, 1, k) \o <<cp>> \o r.text ELSE <<>>]

\* the UTF-8 bytes of one code point
Utf8Char(c) ==
  IF c < 128 THEN <<c>>
  ELSE IF c < 2048 THEN <<192 + (c \div 64), 128 + (c % 64)>>
  ELSE IF c < 65536
       THEN <<224 + (c \div 4096), 128 + ((c \div 64) % 64), 128 + (c % 64)>>
  ELSE <<240 + (c \div 262144), 128 + ((c \div 4096) % 64),
         128 + ((c \div 64) % 64), 128 + (c % 64)>>

\* text.encode("utf-8")
Utf8Encode(t) == Concat([i \in 1..Len(t) |-> Utf8Char(t[i])])

\* s.encode("utf-8") of a byte string s: Python 2 decodes s as ASCII first
\* (an error for a byte above 127) and encodes the text it gets
Encode(s) ==
  IF \A i \in 1..Len(s) : s[i] < 128
  THEN [ok |-> TRUE, bytes |-> Utf8Encode(s)]
  ELSE [ok |-> FALSE, bytes |-> <<>>]

\* repr(s) of a byte string s
ReprByte(c, quote) ==
  IF c = quote \/ c = BACKSLASH THEN <<BACKSLASH, c>>
  ELSE IF c = TAB THEN <<BACKSLASH, Ord("t")>>
  ELSE IF c = LF THEN <<BACKSLASH, Ord("n")>>
  ELSE IF c = CR THEN <<BACKSLASH, Ord("r")>>
  ELSE IF c < 32 \/ c >= 127
       THEN <<BACKSLASH, Ord("x"), HexDigits[(c \div 16) + 1], HexDigits[(c % 16) + 1]>>
  ELSE <<c>>

Repr(s) ==
  LET has(q) == \E i \in 1..Len(s) : s[i] = q
      quote == IF has(QUOTE) /\ ~has(DQUOTE) THEN DQUOTE ELSE QUOTE
  IN <<quote>> \o Concat([i \in 1..Len(s) |-> ReprByte(s[i], quote)]) \o <<quote>>

(***************************************************************************)
(* The commands the session sends (without the CRLF).                      *)
(***************************************************************************)
CloseCmd == Str(<<"f","i","l","e",".","c","l","o","s","e","(",")">>)

OpenPrefix == Str(<<"=","f","i","l","e",".","o","p","e","n","(">>)
OpenWSuffix == Str(<<","," ","'","w","'",")">>)
OpenRSuffix == Str(<<","," ","'","r","'",")">>)

\* "=file.open({}, 'w')".format(repr(filename))
OpenWCmd(filename) == OpenPrefix \o Repr(filename) \o OpenWSuffix

\* "=file.open({}, 'r')".format(repr(filename))
OpenRCmd(filename) == OpenPrefix \o Repr(filename) \o OpenRSuffix

WritePrefix == Str(<<"=","f","i","l","e",".","w","r","i","t","e","(">>)

\* "=file.write({})".format(repr(block))
WriteCmd(blk) == WritePrefix \o Repr(blk) \o Str(<<")">>)

SizePrefix == Str(<<"=","f","i","l","e",".","l","i","s","t","(",")","[">>)

\* "=file.list()[{}]".format(repr(filename))
SizeCmd(filename) == SizePrefix \o Repr(filename) \o Str(<<"]">>)

ReadPrefix ==
  Str(<<"u","a","r","t",".","w","r","i","t","e","(","0",","," ",
        "f","i","l","e",".","r","e","a","d","(">>)

\* "uart.write(0, file.read({}))".format(block)
ReadCmd(n) == ReadPrefix \o IntToStr(n) \o Str(<<")",")">>)

CountCmd ==
  Str(<<"d","o"," ","l","o","c","a","l"," ","c","n","t"," ","="," ","0",";",
        "f","o","r"," ","k",","," ","v"," ","i","n"," ","p","a","i","r","s","(",
        "f","i","l","e",".","l","i","s","t","(",")",")"," ","d","o",
        " "," "," "," ","c","n","t"," ","="," ","c","n","t"," ","+"," ","1"," ",
        "e","n","d",";"," "," "," "," ","p","r","i","n","t","(","c","n","t",")",";",
        "e","n","d">>)

DumpCmd ==
  Str(<<"f","o","r"," ","f",",","s"," ","i","n"," ","p","a","i","r","s","(",
        "f","i","l","e",".","l","i","s","t","(",")",")"," ","d","o",
        " "," "," "," ","p","r","i","n","t","(","#","f",","," ","f",","," ","s",")",";",
        "e","n","d">>)

InfoCmd == Str(<<"=","n","o","d","e",".","i","n","f","o","(",")">>)

RemovePrefix == Str(<<"f","i","l","e",".","r","e","m","o","v","e","(">>)

\* "file.remove({})".format(repr(filename))
RemoveCmd(filename) == RemovePrefix \o Repr(filename) \o Str(<<")">>)

RenamePrefix == Str(<<"=","f","i","l","e",".","r","e","n","a","m","e","(">>)

\* "=file.rename({}, {})".format(repr(old), repr(new))
RenameCmd(old, new) ==
  RenamePrefix \o Repr(old) \o Str(<<","," ">>) \o Repr(new) \o Str(<<")">>)

FormatCmd == Str(<<"f","i","l","e",".","f","o","r","m","a","t","(",")">>)

DofilePrefix == Str(<<"d","o","f","i","l","e","(">>)

\* "dofile({})".format(repr(filename))
DofileCmd(filename) == DofilePrefix \o Repr(filename) \o Str(<<")">>)

RestartCmd == Str(<<"n","o","d","e",".","r","e","s","t","a","r","t","(",")">>)

(***************************************************************************)
(* The inputs of the model.                                                *)
(***************************************************************************)
\* file names given to the methods
Filenames == {<<QUOTE, Ord("t")>>}

\* the data given to write_file: n bytes, in turn "a" and a byte above 127
Data(n) == [i \in 1..n |-> IF i % 2 = 1 THEN Ord("a") ELSE 195]

DataGiven == {Data(n) : n \in 0..MaxData}

\* the bytes of a file on the remote: "a", and a byte no UTF-8 text holds
FileAlphabet == {Ord("a"), 255}

FileContents == SeqsUpTo(FileAlphabet, MaxSize)

\* a command for send_command, as in test_send_command
Commands == {Str(<<"f","o","o","(",")">>)}

\* what the remote prints after the echo of such a command
Responses == {<<>>, <<Ord("r")>> \o CRLF, <<Ord("r")>>}

\* the line endings given to read_line: the default, the prompt, the
\* three bytes of test_read_line and a single byte
LineEndings == {CRLF, PROMPT, Str(<<"b","a","r">>), Str(<<"z">>)}

\* the bytes before the line ending in the channel
LineAlphabet == {Ord("b"), CR}

\* the bytes after the line ending in the channel
Remainders == {<<>>, Str(<<"z">>)}

\* sentinel answers of the remote to an open or a write
Sentinels == {TRUE_, NIL, FALSE_}

\* directory entries of the remote: a name and a size
EntryNames == {Str(<<"f","o","o",".","t","x","t">>), <<TAB>> \o Str(<<".","t","a","b">>)}
EntrySizes == {0, 123}
Entries == [name : EntryNames, size : EntrySizes]

\* the directories: no name twice
Directories ==
  {d \in SeqsUpTo(Entries, MaxFiles) :
     \A i, j \in 1..Len(d) : i # j => d[i].name # d[j].name}

\* the new name given to rename_file
NewNames == {Str(<<"n">>)}

\* the versions the remote reports, those of test_bad_version among them
Versions == {<<0, 0>>, <<1, 3>>, <<1, 4>>, <<1, 9>>, <<2, 0>>, <<2, 5>>}

\* what follows the two version numbers in the line of node.info(): nothing,
\* two numbers as in test_get_version, a field that is no number
InfoTails == {<<>>,
              <<TAB>> \o Str(<<"1","2","3","4">>) \o <<TAB>> \o Str(<<"4","3","2","1">>),
              <<TAB>> \o Str(<<"x">>)}

\* what a file prints when it is run, before the prompt comes back
DofileOutputs == {<<>>, Str(<<"h","!">>) \o CRLF}

\* what the remote sends before the prompt when it restarts ...
RestartNotices == {<<>>, <<255>>}

\* ... and while it boots: nothing, garbage, a banner
BootNoises == {<<>>, <<255>> \o CRLF, Str(<<"N">>) \o CRLF}

(***************************************************************************)
(* State.                                                                  *)
(***************************************************************************)
VARIABLES
  pc,        \* position of the session: "idle", a label of a method, "done", "hung"
  ret,       \* the label send_command continues at after the echo
  method,    \* the method that is running or has just finished
  args,      \* its arguments, and what was pending in the channel at the call
  data,      \* local data of write_file (rest to write) and read_file (bytes read)
  size,      \* local size of read_file
  block,     \* local block of write_file (bytes) and read_file (a length)
  num_files, \* local num_files of list_files
  file,      \* loop variable of list_files
  files,     \* local files of list_files
  result,    \* the value returned
  err,       \* the exception raised: its type and argument
  rx,        \* the channel: bytes sent by the remote and not yet read
  sent,      \* the channel: the payloads of the write calls of this method
  timeout,   \* the channel: "some" when a read gives up after a while and
             \* returns short, "none" when it waits for ever; "unset" until
             \* a read first runs short of bytes, which is when it shows
  remote,    \* the remote device
  last,      \* what the remote sent in answer to the last write
  seen,      \* what the remote has told in this method: the size it reported
             \* (-1 when none) and the raw bytes it sent for read-block requests
             \* (in flush: the bytes taken from the channel)
  reads,     \* number of read_line calls of this method, echoes not counted
             \* (in flush, which reads no line: of serial.read calls)
  calls,     \* number of methods called so far
  cli        \* the run of main: its stage, its action, the version it got and
             \* the calls its port has had of __enter__ and __exit__

vars == <<pc, ret, method, args, data, size, block, num_files, file, files,
          result, err, rx, sent, timeout, remote, last, seen, reads, calls, cli>>

locals == <<data, size, block, num_files, file, files>>

NoError == [type |-> "none", arg |-> <<>>]

NoReply == [prompt |-> <<>>, echo |-> <<>>, response |-> <<>>, accepted |-> 0]

NothingSeen == [size |-> -1, raw |-> <<>>]

NoArgs == [filename |-> <<>>, new |-> <<>>, data |-> <<>>, block_size |-> 0,
           cmd |-> <<>>, line_ending |-> <<>>, pending |-> <<>>]

\* None
None == <<>>

\* {}
EmptyDict == [n \in {} |-> 0]

(***************************************************************************)
(* The remote device.  open is the mode of its open file ("" when none),   *)
(* rest the bytes of that file not yet read, found the content of the file *)
(* the last size lookup found, dir the directory the last count counted.   *)
(***************************************************************************)
RemoteInit == [open |-> "", rest |-> <<>>, found |-> <<>>, dir |-> <<>>]

\* the lines print(#f, f, s) writes for the directory d ...
TabbedLines(d) ==
  Concat([i \in 1..Len(d) |->
            IntToStr(Len(d[i].name)) \o <<TAB>> \o d[i].name \o <<TAB>>
              \o IntToStr(d[i].size) \o CRLF])

\* ... and the lines LEN TAB NAME SIZE of the wire protocol table
JoinedLines(d) ==
  Concat([i \in 1..Len(d) |->
            IntToStr(Len(d[i].name)) \o <<TAB>> \o d[i].name
              \o IntToStr(d[i].size) \o CRLF])

\* The answers of the remote to the line written: what it prints after
\* the echo, and its next state.
RemoteReact(line, r) ==
  LET cmd == DropLast2(line)
      Line(t) == t \o CRLF
  IN
  IF cmd = CloseCmd
  THEN {[out |-> <<>>, remote |-> [r EXCEPT !.open = "", !.rest = <<>>]]}
  ELSE IF StartsWith(cmd, OpenPrefix) /\ EndsWith(cmd, OpenWSuffix)
  THEN {[out |-> Line(s),
         remote |-> IF s = TRUE_ THEN [r EXCEPT !.open = "w", !.rest = <<>>] ELSE r]
          : s \in Sentinels}
  ELSE IF StartsWith(cmd, OpenPrefix) /\ EndsWith(cmd, OpenRSuffix)
  THEN {[out |-> Line(s),
         remote |-> IF s = TRUE_
                    THEN [r EXCEPT !.open = "r", !.rest = r.found, !.found = <<>>]
                    ELSE [r EXCEPT !.found = <<>>]]
          : s \in Sentinels}
  ELSE IF StartsWith(cmd, WritePrefix)
  THEN {[out |-> Line(s), remote |-> r] : s \in Sentinels}
  ELSE IF StartsWith(cmd, SizePrefix)
  THEN {[out |-> Line(NIL), remote |-> [r EXCEPT !.found = <<>>]]}
       \cup {[out |-> Line(IntToStr(Len(c))), remote |-> [r EXCEPT !.found = c]]
               : c \in FileContents}
  ELSE IF StartsWith(cmd, ReadPrefix)
  THEN LET n == ParseInt(SubSeq(cmd, Len(ReadPrefix) + 1, Len(cmd) - 2)).value
       IN {[out |-> Upto(r.rest, n), remote |-> [r EXCEPT !.rest = From(r.rest, n)]]}
  ELSE IF cmd = CountCmd
  THEN {[out |-> Line(IntToStr(Len(d))), remote |-> [r EXCEPT !.dir = d]]
          : d \in Directories}
  ELSE IF cmd = DumpCmd
  THEN {[out |-> TabbedLines(r.dir), remote |-> [r EXCEPT !.dir = <<>>]],
        [out |-> JoinedLines(r.dir), remote |-> [r EXCEPT !.dir = <<>>]]}
  ELSE IF cmd = InfoCmd
  THEN {[out |-> Line(IntToStr(v[1]) \o <<TAB>> \o IntToStr(v[2]) \o t), remote |-> r]
          : v \in Versions, t \in InfoTails}
  ELSE IF StartsWith(cmd, RemovePrefix)
  THEN {[out |-> <<>>, remote |-> [r EXCEPT !.found = <<>>]]}
  ELSE IF StartsWith(cmd, RenamePrefix)
  THEN {[out |-> Line(s), remote |-> r] : s \in Sentinels}
  ELSE IF cmd = FormatCmd
  THEN {[out |-> <<>>, remote |-> RemoteInit]}
  ELSE IF StartsWith(cmd, DofilePrefix)
  THEN {[out |-> o \o PROMPT, remote |-> [r EXCEPT !.found = <<>>]]
          : o \in DofileOutputs}
  ELSE IF cmd = RestartCmd
  THEN {[out |-> n \o PROMPT \o b \o PROMPT, remote |-> RemoteInit]
          : n \in RestartNotices, b \in BootNoises}
  ELSE {[out |-> s, remote |-> r] : s \in Responses}

(***************************************************************************)
(* Transport primitives.                                                   *)
(***************************************************************************)
\* The loop of read_line over the bytes buf of the channel: it reads one
\* byte at a time and stops at the first count k of bytes read at which the
\* last two bytes read are the line ending.  A read from the empty channel
\* never returns, or with a timeout returns no byte, and the loop never
\* ends either way.
ReadLoopStops(buf, ending) ==
  {k \in 0..Len(buf) : Last2(SubSeq(buf, 1, k)) = ending}

\* a loop that reads on to the last line ending in the channel
ReadLoopGreedy(buf, ending) ==
  LET stops == ReadLoopStops(buf, ending)
  IN IF stops = {} THEN [status |-> "hung", data |-> buf, rest |-> <<>>]
     ELSE LET k == CHOOSE i \in stops : \A j \in stops : i >= j
          IN [status |-> "ok", data |-> SubSeq(buf, 1, k), rest |-> From(buf, k)]

ReadLoop(buf, ending) ==
  LET stops == ReadLoopStops(buf, ending)
  IN IF stops = {} THEN [status |-> "hung", data |-> buf, rest |-> <<>>]
     ELSE LET k == CHOOSE i \in stops : \A j \in stops : i <= j
          IN [status |-> "ok", data |-> SubSeq(buf, 1, k), rest |-> From(buf, k)]

\* read_line(line_ending) on the channel content buf
read_line(buf, line_ending) ==
  LET e == Encode(line_ending)
      l == ReadLoop(buf, e.bytes)
      d == Utf8Decode(DropLast2(l.data))
  IN IF ~e.ok THEN [status |-> "UnicodeDecodeError", line |-> <<>>, rest |-> buf]
     ELSE IF l.status = "hung" THEN [status |-> "hung", line |-> <<>>, rest |-> l.rest]
     ELSE IF ~d.ok THEN [status |-> "UnicodeDecodeError", line |-> <<>>, rest |-> l.rest]
     ELSE [status |-> "ok", line |-> d.text, rest |-> l.rest]

Goto(label) == pc' = label /\ UNCHANGED <<err, result>>

Raise(type, arg) == pc' = "done" /\ err' = [type |-> type, arg |-> arg] /\ UNCHANGED result

Return(value) == pc' = "done" /\ result' = value /\ UNCHANGED err

\* a read that did not come back: the method never returns
Fail(status) == IF status = "hung" THEN Goto("hung") ELSE Raise(status, <<>>)

\* the lengths serial.write(b) may report: all of b, or as in
\* test_write_timeout a single byte
WriteCounts(b) == {Len(b), 1}

\* send_command, lines 36-37: the write, answered by the remote.  The
\* length serial.write reports is dropped.  Of a line the channel took in
\* part the remote echoes that part, and it runs nothing.
SerialWrite(cmd, next) ==
  LET e == Encode(cmd \o CRLF)
  IN
  /\ UNCHANGED reads
  /\ IF ~e.ok
     THEN /\ Raise("UnicodeDecodeError", <<>>)
          /\ UNCHANGED <<ret, rx, sent, remote, last, seen>>
     ELSE \E n \in WriteCounts(e.bytes) :
          IF n < Len(e.bytes)
          THEN /\ sent' = Append(sent, e.bytes)
               /\ rx' = rx \o Upto(e.bytes, n)
               /\ last' = [prompt |-> <<>>, echo |-> Upto(e.bytes, n),
                           response |-> <<>>, accepted |-> n]
               /\ ret' = next
               /\ Goto("echo")
               /\ UNCHANGED <<remote, seen>>
          ELSE
          \E prompt \in {<<>>, PROMPT} : \E a \in RemoteReact(e.bytes, remote) :
            /\ sent' = Append(sent, e.bytes)
            /\ rx' = rx \o prompt \o e.bytes \o a.out
            /\ remote' = a.remote
            /\ last' = [prompt |-> prompt, echo |-> e.bytes, response |-> a.out,
                        accepted |-> n]
            /\ seen' = IF StartsWith(cmd, SizePrefix)
                       THEN [seen EXCEPT !.size = IF a.out = NIL \o CRLF THEN -1
                                                  ELSE Len(a.remote.found)]
                       ELSE IF StartsWith(cmd, ReadPrefix)
                       THEN [seen EXCEPT !.raw = @ \o a.out]
                       ELSE seen
            /\ ret' = next
            /\ Goto("echo")

\* line 57 with nothing left to read: serial.read(1) never returns, or
\* on a port with a timeout returns no byte, time after time; the loop of
\* read_line has no other way out
ReadStarved ==
  /\ pc = "hung"
  /\ timeout = "unset"
  /\ timeout' \in {"none", "some"}
  /\ UNCHANGED <<pc, ret, method, args, locals, result, err, rx, sent, remote,
                 last, seen, reads, calls, cli>>

\* send_command, line 39: the echo is absorbed
AbsorbEcho ==
  /\ pc = "echo"
  /\ LET r == read_line(rx, CRLF)
     IN /\ rx' = r.rest
        /\ IF r.status = "ok" THEN Goto(ret) ELSE Fail(r.status)
  /\ UNCHANGED <<ret, method, args, locals, sent, timeout, remote, last, seen, reads, calls, cli>>

(***************************************************************************)
(* Calls.                                                                  *)
(***************************************************************************)
NoMain == [stage |-> "", action |-> "", argv |-> <<>>, version |-> <<>>, code |-> -1,
           port |-> <<>>]

\* a method of a session is called when none is running; the session of
\* a run of main is called by main only
CanCall == pc \in {"idle", "done"} /\ calls < MaxCalls /\ cli = NoMain

\* the start of method m with the arguments a on the channel content buf
Begin(m, a, label, buf) ==
  /\ method' = m
  /\ rx' = buf
  /\ args' = [a EXCEPT !.pending = buf]
  /\ pc' = label
  /\ ret' = ""
  /\ data' = <<>> /\ size' = 0 /\ block' = 0
  /\ num_files' = 0 /\ file' = 0 /\ files' = EmptyDict
  /\ result' = None /\ err' = NoError
  /\ sent' = <<>>
  /\ last' = NoReply
  /\ seen' = NothingSeen
  /\ reads' = 0
  /\ UNCHANGED remote

Enter(m, a, label, buf) ==
  /\ CanCall
  /\ Begin(m, a, label, buf)
  /\ calls' = calls + 1
  /\ UNCHANGED <<timeout, cli>>

\* n.send_command(cmd)
CallSendCommand ==
  \E cmd \in Commands :
    Enter("send_command", [NoArgs EXCEPT !.cmd = cmd], "send_command", rx)

SendCommand ==
  /\ pc = "send_command"
  /\ SerialWrite(args.cmd, "done")
  /\ UNCHANGED <<method, args, locals, timeout, calls, cli>>

\* n.read_line(line_ending) with known bytes in the channel, as in
\* test_read_line
CallReadLine ==
  \E ending \in LineEndings : \E pre \in SeqsUpTo(LineAlphabet, MaxPre) :
  \E mid \in {<<>>, ending} : \E post \in Remainders :
    /\ rx = <<>>
    /\ Enter("read_line", [NoArgs EXCEPT !.line_ending = ending], "read_line",
             pre \o mid \o post)

ReadLine ==
  /\ pc = "read_line"
  /\ LET r == read_line(rx, args.line_ending)
     IN /\ rx' = r.rest
        /\ IF r.status = "ok" THEN Return(r.line) ELSE Fail(r.status)
  /\ reads' = reads + 1
  /\ UNCHANGED <<ret, method, args, locals, sent, timeout, remote, last, seen, calls, cli>>

(***************************************************************************)
(* write_file(filename, data, block_size)                                  *)
(***************************************************************************)
\* a write_file that opens the file right away
WriteFileFirstOpen == "wf_open"

\* line 83: the first statement of write_file
WriteFileFirst == "wf_close"

CallWriteFile ==
  \E f \in Filenames : \E d \in DataGiven :
  \E b \in 1..MaxBlockSize :
    Enter("write_file",
             [NoArgs EXCEPT !.filename = f, !.data = d, !.block_size = b],
             WriteFileFirst, rx)

\* line 83
WriteFileClose ==
  /\ pc = "wf_close"
  /\ SerialWrite(CloseCmd, "wf_open")
  /\ data' = args.data
  /\ UNCHANGED <<method, args, size, block, num_files, file, files, timeout, calls, cli>>

\* line 84
WriteFileOpen ==
  /\ pc = "wf_open"
  /\ SerialWrite(OpenWCmd(args.filename), "wf_opened")
  /\ UNCHANGED <<method, args, locals, timeout, calls, cli>>

\* a write_file that goes on whatever the open answered
WriteOpenNeverFailed(response) == FALSE

\* a write_file as strict about the open as read_file is
WriteOpenFailedUnlessTrue(response) == response # TRUE_

\* line 85: the answer to the open that makes write_file give up
WriteOpenFailed(response) == response = NIL

\* lines 85-86
WriteFileOpened ==
  /\ pc = "wf_opened"
  /\ LET r == read_line(rx, CRLF)
     IN /\ rx' = r.rest
        /\ IF r.status # "ok" THEN Fail(r.status)
           ELSE IF WriteOpenFailed(r.line) THEN Raise("IOError", <<>>)
           ELSE Goto("wf_loop")
  /\ reads' = reads + 1
  /\ UNCHANGED <<ret, method, args, locals, sent, timeout, remote, last, seen, calls, cli>>

\* line 88: data[:block_size]
Block(d, block_size) == Upto(d, block_size)

\* a rest that loses the byte after the block
AfterBlockSkips(d, block_size) == From(d, block_size + 1)

\* line 89: data[block_size:]
AfterBlock(d, block_size) == From(d, block_size)

\* lines 87-90: the next block is cut off data and sent
WriteFileBlock ==
  /\ pc = "wf_loop"
  /\ data # <<>>
  /\ block' = Block(data, args.block_size)
  /\ data' = AfterBlock(data, args.block_size)
  /\ SerialWrite(WriteCmd(block'), "wf_written")
  /\ UNCHANGED <<method, args, size, num_files, file, files, timeout, calls, cli>>

\* a write_file that gives up on nil only
WriteFailedOnNil(response) == response = NIL

\* line 92: the answer to a write that makes write_file give up
WriteFailed(response) == response # TRUE_

\* lines 91-94
WriteFileWritten ==
  /\ pc = "wf_written"
  /\ LET r == read_line(rx, CRLF)
     IN /\ rx' = r.rest
        /\ IF r.status # "ok" THEN Fail(r.status)
           ELSE IF WriteFailed(r.line) THEN Raise("IOError", r.line)
           ELSE Goto("wf_loop")
  /\ reads' = reads + 1
  /\ UNCHANGED <<ret, method, args, locals, sent, timeout, remote, last, seen, calls, cli>>

\* line 95, after the loop
WriteFileEnd ==
  /\ pc = "wf_loop"
  /\ data = <<>>
  /\ SerialWrite(CloseCmd, "done")
  /\ UNCHANGED <<method, args, locals, timeout, calls, cli>>

(***************************************************************************)
(* read_file(filename, block_size)                                         *)
(***************************************************************************)
\* line 111: the first statement of read_file
ReadFileFirst == "rf_close"

CallReadFile ==
  \E f \in Filenames : \E b \in 1..MaxBlockSize :
    Enter("read_file", [NoArgs EXCEPT !.filename = f, !.block_size = b],
             ReadFileFirst, rx)

\* line 111
ReadFileClose ==
  /\ pc = "rf_close"
  /\ SerialWrite(CloseCmd, "rf_size")
  /\ UNCHANGED <<method, args, locals, timeout, calls, cli>>

\* line 114
ReadFileSize ==
  /\ pc = "rf_size"
  /\ SerialWrite(SizeCmd(args.filename), "rf_sized")
  /\ UNCHANGED <<method, args, locals, timeout, calls, cli>>

\* line 116: the answer to the size lookup that says there is no file
NoSuchFile(response) == response = NIL

\* lines 115-118
ReadFileSized ==
  /\ pc = "rf_sized"
  /\ LET r == read_line(rx, CRLF)
         n == ParseInt(r.line)
     IN /\ rx' = r.rest
        /\ IF r.status # "ok" THEN Fail(r.status) /\ UNCHANGED size
           ELSE IF NoSuchFile(r.line) THEN Raise("IOError", <<>>) /\ UNCHANGED size
           ELSE IF ~n.ok THEN Raise("ValueError", r.line) /\ UNCHANGED size
           ELSE size' = n.value /\ Goto("rf_open")
  /\ reads' = reads + 1
  /\ UNCHANGED <<ret, method, args, data, block, num_files, file, files,
                 sent, timeout, remote, last, seen, calls, cli>>

\* line 120
ReadFileOpen ==
  /\ pc = "rf_open"
  /\ SerialWrite(OpenRCmd(args.filename), "rf_opened")
  /\ UNCHANGED <<method, args, locals, timeout, calls, cli>>

\* a read_file that gives up on nil only
ReadOpenFailedOnNil(response) == response = NIL

\* line 121: the answer to the open that makes read_file give up
ReadOpenFailed(response) == response # TRUE_

\* lines 121-125
ReadFileOpened ==
  /\ pc = "rf_opened"
  /\ LET r == read_line(rx, CRLF)
     IN /\ rx' = r.rest
        /\ IF r.status # "ok" THEN Fail(r.status)
           ELSE IF ReadOpenFailed(r.line) THEN Raise("IOError", <<>>)
           ELSE Goto("rf_loop")
  /\ data' = <<>>
  /\ reads' = reads + 1
  /\ UNCHANGED <<ret, method, args, size, block, num_files, file, files,
                 sent, timeout, remote, last, seen, calls, cli>>

\* the length of the next block, line 127
BlockLength(sz, block_size) == Max(sz, block_size)

\* lines 126-129: the length of the next block, and its request
ReadFileBlock ==
  /\ pc = "rf_loop"
  /\ size # 0
  /\ size >= -MaxNegative
  /\ block' = BlockLength(size, args.block_size)
  /\ size' = size - block'
  /\ SerialWrite(ReadCmd(block'), "rf_read")
  /\ UNCHANGED <<method, args, data, num_files, file, files, timeout, calls, cli>>

\* the timeouts the port may turn out to have
Timeouts == IF timeout = "unset" THEN {"none", "some"} ELSE {timeout}

\* line 130: serial.read(block).  When fewer bytes are there, the read
\* returns them after the timeout, or never returns without one.
ReadFileRead ==
  /\ pc = "rf_read"
  /\ IF Len(rx) >= block
     THEN /\ data' = data \o Upto(rx, block)
          /\ rx' = From(rx, block)
          /\ Goto("rf_loop")
          /\ UNCHANGED timeout
     ELSE \E t \in Timeouts :
            /\ timeout' = t
            /\ IF t = "some"
               THEN data' = data \o rx /\ rx' = <<>> /\ Goto("rf_loop")
               ELSE Goto("hung") /\ UNCHANGED <<data, rx>>
  /\ UNCHANGED <<ret, method, args, size, block, num_files, file, files,
                 sent, remote, last, seen, reads, calls, cli>>

\* what read_file does once its loop has ended
ReadFileAfterLoop ==
  LET d == Utf8Decode(data)
  IN /\ IF d.ok THEN Return(d.text) ELSE Raise("UnicodeDecodeError", <<>>)
     /\ UNCHANGED <<ret, rx, sent, remote, last, seen, reads>>

\* line 132, after the loop
ReadFileEnd ==
  /\ pc = "rf_loop"
  /\ size = 0
  /\ ReadFileAfterLoop
  /\ UNCHANGED <<method, args, locals, timeout, calls, cli>>

(***************************************************************************)
(* list_files()                                                            *)
(***************************************************************************)
CallListFiles ==
  Enter("list_files", NoArgs, "lf_count", rx)

\* lines 142-147
ListFilesCount ==
  /\ pc = "lf_count"
  /\ SerialWrite(CountCmd, "lf_counted")
  /\ UNCHANGED <<method, args, locals, timeout, calls, cli>>

\* line 148
ListFilesCounted ==
  /\ pc = "lf_counted"
  /\ LET r == read_line(rx, CRLF)
         n == ParseInt(r.line)
     IN /\ rx' = r.rest
        /\ IF r.status # "ok" THEN Fail(r.status) /\ UNCHANGED num_files
           ELSE IF ~n.ok THEN Raise("ValueError", r.line) /\ UNCHANGED num_files
           ELSE num_files' = n.value /\ Goto("lf_dump")
  /\ reads' = reads + 1
  /\ UNCHANGED <<ret, method, args, data, size, block, file, files,
                 sent, timeout, remote, last, seen, calls, cli>>

\* lines 151-155
ListFilesDump ==
  /\ pc = "lf_dump"
  /\ SerialWrite(DumpCmd, "lf_loop")
  /\ files' = EmptyDict
  /\ file' = 0
  /\ UNCHANGED <<method, args, data, size, block, num_files, timeout, calls, cli>>

\* line.partition("\t"): the text before the first tab and the text after it
Partition(line) ==
  IF \E i \in 1..Len(line) : line[i] = TAB
  THEN LET k == CHOOSE i \in 1..Len(line) :
                  line[i] = TAB /\ \A j \in 1..(i - 1) : line[j] # TAB
       IN [head |-> SubSeq(line, 1, k - 1), tail |-> From(line, k)]
  ELSE [head |-> line, tail |-> <<>>]

\* the part of the line the size is read from, line 162
SizeField(line, filename_length) == From(line, filename_length + 1)

\* lines 158-162: a line of the listing gives a name and a size
ParseEntry(line) ==
  LET p == Partition(line)
      filename_length == ParseInt(p.head)
      filename == Upto(p.tail, filename_length.value)
      sz == ParseInt(SizeField(p.tail, filename_length.value))
  IN IF ~filename_length.ok THEN [ok |-> FALSE, bad |-> p.head]
     ELSE IF ~sz.ok
     THEN [ok |-> FALSE, bad |-> SizeField(p.tail, filename_length.value)]
     ELSE [ok |-> TRUE, filename |-> filename, size |-> sz.value]

\* files[filename] = size
DictSet(d, k, v) == [x \in (DOMAIN d) \cup {k} |-> IF x = k THEN v ELSE d[x]]

\* a loop that goes round once more than the count
OneEntryMore(f, n) == f <= n

\* line 156, for file in range(num_files): there is a next pass
MoreEntries(f, n) == f < n

\* lines 156-163: one pass of the loop
ListFilesEntry ==
  /\ pc = "lf_loop"
  /\ MoreEntries(file, num_files)
  /\ LET r == read_line(rx, CRLF)
         e == ParseEntry(r.line)
     IN /\ rx' = r.rest
        /\ IF r.status # "ok" THEN Fail(r.status) /\ UNCHANGED <<file, files>>
           ELSE IF ~e.ok THEN Raise("ValueError", e.bad) /\ UNCHANGED <<file, files>>
           ELSE /\ files' = DictSet(files, e.filename, e.size)
                /\ file' = file + 1
                /\ Goto("lf_loop")
  /\ reads' = reads + 1
  /\ UNCHANGED <<ret, method, args, data, size, block, num_files,
                 sent, timeout, remote, last, seen, calls, cli>>

\* line 165
ListFilesEnd ==
  /\ pc = "lf_loop"
  /\ ~MoreEntries(file, num_files)
  /\ Return(files)
  /\ UNCHANGED <<ret, method, args, locals, rx, sent, timeout, remote, last, seen, reads, calls, cli>>

(***************************************************************************)
(* get_version()                                                           *)
(***************************************************************************)
CallGetVersion ==
  Enter("get_version", NoArgs, "gv_send", rx)

\* line 67
GetVersionSend ==
  /\ pc = "gv_send"
  /\ SerialWrite(InfoCmd, "gv_read")
  /\ UNCHANGED <<method, args, locals, timeout, calls, cli>>

\* s.split(sep) for a separator of one byte
RECURSIVE Split(_, _)
Split(s, sep) ==
  IF \A i \in 1..Len(s) : s[i] # sep THEN <<s>>
  ELSE LET k == CHOOSE i \in 1..Len(s) :
                  s[i] = sep /\ \A j \in 1..(i - 1) : s[j] # sep
       IN <<SubSeq(s, 1, k - 1)>> \o Split(From(s, k), sep)

\* the fields of the line that int() is applied to: all of them
ParsedFields(fields) == 1..Len(fields)

\* lines 68-69: list(map(int, line.split("\t"))), then info[0] and info[1]
VersionOf(line) ==
  LET fields == Split(line, TAB)
      bad == {i \in ParsedFields(fields) : ~ParseInt(fields[i]).ok}
  IN IF bad # {}
     THEN [status |-> "ValueError",
           value |-> fields[CHOOSE i \in bad : \A j \in bad : i <= j]]
     ELSE IF Len(fields) < 2 THEN [status |-> "IndexError", value |-> <<>>]
     ELSE [status |-> "ok",
           value |-> <<ParseInt(fields[1]).value, ParseInt(fields[2]).value>>]

\* lines 68-69
GetVersionRead ==
  /\ pc = "gv_read"
  /\ LET r == read_line(rx, CRLF)
         v == VersionOf(r.line)
     IN /\ rx' = r.rest
        /\ IF r.status # "ok" THEN Fail(r.status)
           ELSE IF v.status # "ok" THEN Raise(v.status, v.value)
           ELSE Return(v.value)
  /\ reads' = reads + 1
  /\ UNCHANGED <<ret, method, args, locals, sent, timeout, remote, last, seen, calls, cli>>

(***************************************************************************)
(* remove_file(filename), rename_file(old, new), format()                  *)
(***************************************************************************)
CallRemoveFile ==
  \E f \in Filenames :
    Enter("remove_file", [NoArgs EXCEPT !.filename = f], "rm_size", rx)

\* line 169
RemoveFileSize ==
  /\ pc = "rm_size"
  /\ SerialWrite(SizeCmd(args.filename), "rm_sized")
  /\ UNCHANGED <<method, args, locals, timeout, calls, cli>>

\* a lookup that never says there is no file
AlwaysFound(response) == FALSE

\* lines 170 and 194: the answer to the size lookup that says there is no
\* file
NotFound(response) == response = NIL

\* lines 170-171
RemoveFileSized ==
  /\ pc = "rm_sized"
  /\ LET r == read_line(rx, CRLF)
     IN /\ rx' = r.rest
        /\ IF r.status # "ok" THEN Fail(r.status)
           ELSE IF NotFound(r.line) THEN Raise("IOError", <<>>)
           ELSE Goto("rm_remove")
  /\ reads' = reads + 1
  /\ UNCHANGED <<ret, method, args, locals, sent, timeout, remote, last, seen, calls, cli>>

\* line 172
RemoveFileRemove ==
  /\ pc = "rm_remove"
  /\ SerialWrite(RemoveCmd(args.filename), "done")
  /\ UNCHANGED <<method, args, locals, timeout, calls, cli>>

CallRenameFile ==
  \E old \in Filenames : \E new \in NewNames :
    Enter("rename_file", [NoArgs EXCEPT !.filename = old, !.new = new],
          "rn_send", rx)

\* lines 176-177
RenameFileSend ==
  /\ pc = "rn_send"
  /\ SerialWrite(RenameCmd(args.filename, args.new), "rn_read")
  /\ UNCHANGED <<method, args, locals, timeout, calls, cli>>

\* a rename_file that gives up on nil only
RenameFailedOnNil(response) == response = NIL

\* line 178: the answer that makes rename_file give up
RenameFailed(response) == response # TRUE_

\* lines 178-179
RenameFileRead ==
  /\ pc = "rn_read"
  /\ LET r == read_line(rx, CRLF)
     IN /\ rx' = r.rest
        /\ IF r.status # "ok" THEN Fail(r.status)
           ELSE IF RenameFailed(r.line) THEN Raise("IOError", <<>>)
           ELSE Return(None)
  /\ reads' = reads + 1
  /\ UNCHANGED <<ret, method, args, locals, sent, timeout, remote, last, seen, calls, cli>>

CallFormat ==
  Enter("format", NoArgs, "fm_send", rx)

\* line 183
FormatSend ==
  /\ pc = "fm_send"
  /\ SerialWrite(FormatCmd, "done")
  /\ UNCHANGED <<method, args, locals, timeout, calls, cli>>

(***************************************************************************)
(* dofile(filename)                                                        *)
(***************************************************************************)
CallDofile ==
  \E f \in Filenames :
    Enter("dofile", [NoArgs EXCEPT !.filename = f], "df_size", rx)

\* line 193
DofileSize ==
  /\ pc = "df_size"
  /\ SerialWrite(SizeCmd(args.filename), "df_sized")
  /\ UNCHANGED <<method, args, locals, timeout, calls, cli>>

\* lines 194-195
DofileSized ==
  /\ pc = "df_sized"
  /\ LET r == read_line(rx, CRLF)
     IN /\ rx' = r.rest
        /\ IF r.status # "ok" THEN Fail(r.status)
           ELSE IF NotFound(r.line) THEN Raise("IOError", <<>>)
           ELSE Goto("df_send")
  /\ reads' = reads + 1
  /\ UNCHANGED <<ret, method, args, locals, sent, timeout, remote, last, seen, calls, cli>>

\* line 196
DofileSend ==
  /\ pc = "df_send"
  /\ SerialWrite(DofileCmd(args.filename), "df_read")
  /\ UNCHANGED <<method, args, locals, timeout, calls, cli>>

\* line 197: what dofile gives read_line as the line ending is {"> "}, a
\* set with the prompt in it
DofileLineEnding == [type |-> "set", value |-> {PROMPT}]

\* read_line(line_ending) for a line ending of any type: line 55 asks it
\* for its encode method, which a str has and a set has not
ReadLineWith(buf, line_ending) ==
  IF line_ending.type = "str" THEN read_line(buf, line_ending.value)
  ELSE [status |-> "AttributeError", line |-> <<>>, rest |-> buf]

\* line 197
DofileRead ==
  /\ pc = "df_read"
  /\ LET r == ReadLineWith(rx, DofileLineEnding)
     IN /\ rx' = r.rest
        /\ IF r.status = "ok" THEN Return(r.line) ELSE Fail(r.status)
  /\ reads' = reads + 1
  /\ UNCHANGED <<ret, method, args, locals, sent, timeout, remote, last, seen, calls, cli>>

(***************************************************************************)
(* restart()                                                               *)
(***************************************************************************)
\* the channel may hold a byte of line noise when restart is called
CallRestart ==
  \E noise \in {<<>>, <<255>>} :
    Enter("restart", NoArgs, "rs_send", rx \o noise)

\* line 204
RestartSend ==
  /\ pc = "rs_send"
  /\ SerialWrite(RestartCmd, "rs_first")
  /\ UNCHANGED <<method, args, locals, timeout, calls, cli>>

\* a restart whose try statement holds both reads
SwallowedInBothReads(nth, type) == type = "UnicodeDecodeError"

\* lines 210-214: the failure of the nth read of a prompt that restart
\* passes over
Swallowed(nth, type) == nth = 2 /\ type = "UnicodeDecodeError"

\* lines 207 and 210-214: the nth read of a prompt
RestartAbsorb(nth, next) ==
  LET r == read_line(rx, PROMPT)
  IN /\ rx' = r.rest
     /\ IF r.status = "ok" \/ Swallowed(nth, r.status)
        THEN IF next = "done" THEN Return(None) ELSE Goto(next)
        ELSE Fail(r.status)
     /\ reads' = reads + 1

\* line 207
RestartFirst ==
  /\ pc = "rs_first"
  /\ RestartAbsorb(1, "rs_second")
  /\ UNCHANGED <<ret, method, args, locals, sent, timeout, remote, last, seen, calls, cli>>

\* lines 210-214
RestartSecond ==
  /\ pc = "rs_second"
  /\ RestartAbsorb(2, "done")
  /\ UNCHANGED <<ret, method, args, locals, sent, timeout, remote, last, seen, calls, cli>>

(***************************************************************************)
(* flush()                                                                 *)
(***************************************************************************)
\* what may lie in the input buffer when flush is called, as in test_flush
Junk == {<<>>, Str(<<"a">>), Str(<<"f","o","o">>)}

\* what a noisy remote sends while a read of flush is under way
Noise == {<<>>, <<255>>}

CallFlush ==
  \E junk \in Junk : Enter("flush", NoArgs, "fl_check", rx \o junk)

\* serial.in_waiting
InWaiting(buf) == Len(buf)

\* a loop that gives up with one byte left
StillWaitingForMore(buf) == InWaiting(buf) > 1

\* line 28: while self.serial.in_waiting
StillWaiting(buf) == InWaiting(buf) # 0

\* lines 28-29: the test of the loop and, when bytes are waiting, one
\* serial.read of as many as are waiting
FlushRead ==
  /\ pc = "fl_check"
  /\ IF StillWaiting(rx)
     THEN \E more \in (IF reads < MaxNoise THEN Noise ELSE {<<>>}) :
            /\ rx' = From(rx, InWaiting(rx)) \o more
            /\ seen' = [seen EXCEPT !.raw = @ \o Upto(rx, InWaiting(rx))]
            /\ reads' = reads + 1
            /\ Goto("fl_check")
     ELSE /\ Return(None)
          /\ UNCHANGED <<rx, seen, reads>>
  /\ UNCHANGED <<ret, method, args, locals, sent, timeout, remote, last, calls, cli>>

(***************************************************************************)
(* main(): one run of the command line on a port of its own.  stage is     *)
(* "version" while get_version runs, "action" while the method of the      *)
(* action runs and "exit" when the run is over, with its exit code.        *)
(***************************************************************************)
\* lines 18-20: __enter__ of the session calls __enter__ of the port
SessionEnter(state) == Append(state, [call |-> "enter", exc |-> "none"])

\* a release that is skipped when an exception is under way
SessionExitUnlessRaised(state, type) ==
  IF type = "none" THEN Append(state, [call |-> "exit", exc |-> type]) ELSE state

\* lines 22-24: __exit__ of the session calls __exit__ of the port with the
\* exception that leaves the block, if any
SessionExit(state, type) == Append(state, [call |-> "exit", exc |-> type])

\* the actions of the command line
MainActions == {"write", "read", "list", "delete", "move", "format", "dofile", "restart"}

\* the names an action takes on the command line
Argv(action) ==
  IF action \in {"write", "read", "delete", "dofile"} THEN {<<f>> : f \in Filenames}
  ELSE IF action = "move" THEN {<<old, new>> : old \in Filenames, new \in NewNames}
  ELSE {<<>>}

\* what sys.stdin.read() gives
StdinData == {Str(<<"a">>)}

\* the default of block_size, lines 71 and 97
DefaultBlockSize == 64

\* lines 258-267: the arguments are parsed, the port is opened without a
\* timeout, the with block is entered and get_version is called
CallMain ==
  \E action \in MainActions : \E argv \in Argv(action) :
    /\ pc = "idle"
    /\ cli = NoMain
    /\ calls < MaxCalls
    /\ Begin("get_version", NoArgs, "gv_send", <<>>)
    /\ timeout' = "none"
    /\ calls' = calls + 1
    /\ cli' = [NoMain EXCEPT !.stage = "version", !.action = action, !.argv = argv,
                           !.port = SessionEnter(@)]

\* a < b for tuples of two numbers
TupleLess(a, b) == a[1] < b[1] \/ (a[1] = b[1] /\ a[2] < b[2])

\* a check that lets version 2.0 pass
CompatibleUpTo(version) ==
  ~TupleLess(version, <<1, 4>>) /\ ~TupleLess(<<2, 0>>, version)

\* line 267: (1, 4) <= version < (2, 0)
Compatible(version) ==
  ~TupleLess(version, <<1, 4>>) /\ TupleLess(version, <<2, 0>>)

\* an exception leaves main
MainFails(type) ==
  /\ err' = [type |-> type, arg |-> <<>>]
  /\ UNCHANGED <<pc, ret, method, args, locals, result, rx, sent, remote, last,
                 seen, reads>>

\* lines 271-299: the method of the action is called
Dispatch(action, argv) ==
  IF action = "write"
  THEN \E d \in StdinData :
         Begin("write_file",
               [NoArgs EXCEPT !.filename = argv[1], !.data = d,
                              !.block_size = DefaultBlockSize],
               WriteFileFirst, rx)
  ELSE IF action = "read"
  THEN Begin("read_file",
             [NoArgs EXCEPT !.filename = argv[1], !.block_size = DefaultBlockSize],
             ReadFileFirst, rx)
  ELSE IF action = "list" THEN Begin("list_files", NoArgs, "lf_count", rx)
  ELSE IF action = "delete"
  THEN Begin("remove_file", [NoArgs EXCEPT !.filename = argv[1]], "rm_size", rx)
  ELSE IF action = "move"
  THEN \* line 293: remove_file is given two names and takes one
       MainFails("TypeError")
  ELSE IF action = "format" THEN Begin("format", NoArgs, "fm_send", rx)
  ELSE IF action = "dofile"
  THEN Begin("dofile", [NoArgs EXCEPT !.filename = argv[1]], "df_size", rx)
  ELSE Begin("restart", NoArgs, "rs_send", rx)

\* lines 264-299: get_version has returned or raised; an exception leaves
\* the with block through __exit__
MainCheck ==
  /\ cli.stage = "version"
  /\ pc = "done"
  /\ IF err # NoError
     THEN /\ cli' = [cli EXCEPT !.stage = "exit", !.code = 1,
                               !.port = SessionExit(@, err.type)]
          /\ UNCHANGED <<pc, ret, method, args, locals, result, err, rx, sent,
                         remote, last, seen, reads>>
     ELSE IF ~Compatible(result)
     THEN /\ MainFails("Exception")
          /\ cli' = [cli EXCEPT !.stage = "exit", !.version = result, !.code = 1,
                               !.port = SessionExit(@, "Exception")]
     ELSE /\ Dispatch(cli.action, cli.argv)
          /\ cli' = IF cli.action = "move"
                    THEN [cli EXCEPT !.stage = "exit", !.version = result, !.code = 1,
                                     !.port = SessionExit(@, "TypeError")]
                    ELSE [cli EXCEPT !.stage = "action", !.version = result]
  /\ UNCHANGED <<timeout, calls>>

\* lines 264 and 303: the method of the action has returned or raised, the
\* with block is left
MainReturn ==
  /\ cli.stage = "action"
  /\ pc = "done"
  /\ cli' = [cli EXCEPT !.stage = "exit", !.code = IF err = NoError THEN 0 ELSE 1,
                        !.port = SessionExit(@, err.type)]
  /\ UNCHANGED <<pc, ret, method, args, locals, result, err, rx, sent, timeout,
                 remote, last, seen, reads, calls>>

Init ==
  /\ pc = "idle"
  /\ ret = ""
  /\ method = ""
  /\ args = NoArgs
  /\ data = <<>> /\ size = 0 /\ block = 0
  /\ num_files = 0 /\ file = 0 /\ files = EmptyDict
  /\ result = None
  /\ err = NoError
  /\ rx = <<>>
  /\ sent = <<>>
  /\ timeout = "unset"
  /\ remote = RemoteInit
  /\ last = NoReply
  /\ seen = NothingSeen
  /\ reads = 0
  /\ calls = 0
  /\ cli = NoMain

Next ==
  \/ CallSendCommand
  \/ SendCommand
  \/ AbsorbEcho
  \/ ReadStarved
  \/ CallReadLine
  \/ ReadLine
  \/ CallWriteFile
  \/ WriteFileClose
  \/ WriteFileOpen
  \/ WriteFileOpened
  \/ WriteFileBlock
  \/ WriteFileWritten
  \/ WriteFileEnd
  \/ CallReadFile
  \/ ReadFileClose
  \/ ReadFileSize
  \/ ReadFileSized
  \/ ReadFileOpen
  \/ ReadFileOpened
  \/ ReadFileBlock
  \/ ReadFileRead
  \/ ReadFileEnd
  \/ CallListFiles
  \/ ListFilesCount
  \/ ListFilesCounted
  \/ ListFilesDump
  \/ ListFilesEntry
  \/ ListFilesEnd
  \/ CallGetVersion
  \/ GetVersionSend
  \/ GetVersionRead
  \/ CallRemoveFile
  \/ RemoveFileSize
  \/ RemoveFileSized
  \/ RemoveFileRemove
  \/ CallRenameFile
  \/ RenameFileSend
  \/ RenameFileRead
  \/ CallFormat
  \/ FormatSend
  \/ CallDofile
  \/ DofileSize
  \/ DofileSized
  \/ DofileSend
  \/ DofileRead
  \/ CallRestart
  \/ RestartSend
  \/ RestartFirst
  \/ RestartSecond
  \/ CallFlush
  \/ FlushRead
  \/ CallMain
  \/ MainCheck
  \/ MainReturn

Spec == Init /\ [][Next]_vars

(***************************************************************************)
(* Properties.                                                             *)
(***************************************************************************)
\* a line as it goes over the channel
Answer(t) == t \o CRLF

Last(s) == s[Len(s)]

\* the channel has taken every command of the method whole
AllWritten == sent = <<>> \/ last.accepted = Len(Last(sent))

\* the channel held no unread byte when the method was called, and has
\* taken its commands whole
InSync == args.pending = <<>> /\ AllWritten

IsPrefix(p, s) == Len(p) <= Len(s) /\ SubSeq(s, 1, Len(p)) = p

\* ceil(L / B)
NumBlocks(L, B) == (L + B - 1) \div B

\* bytes [i*B, min((i+1)*B, L)) of d
Slice(d, i, B) == SubSeq(d, i * B + 1, Min((i + 1) * B, Len(d)))

\* the requests of the method that are read-block statements
ReadRequests == {i \in 1..Len(sent) : StartsWith(sent[i], ReadPrefix)}

\* C1: send_command(cmd) writes once, cmd followed by CRLF; it then reads
\* the bytes up to and including the first CRLF, which is the end of the
\* echo also when a prompt precedes the echo, so that all the remote printed
\* after the echo is unread when send_command returns.
C1_SendCommand ==
  (method = "send_command" /\ InSync) =>
    /\ pc # "hung"
    /\ pc = "echo" =>
         /\ sent = <<Answer(args.cmd)>>
         /\ last.echo = Answer(args.cmd)
         /\ rx = last.prompt \o last.echo \o last.response
    /\ pc = "done" =>
         /\ err = NoError
         /\ sent = <<Answer(args.cmd)>>
         /\ rx = last.response

C1_Witness ==
  /\ method = "send_command" /\ pc = "done" /\ InSync
  /\ last.prompt = PROMPT
  /\ last.response = Answer(<<Ord("r")>>)
  /\ rx = last.response

\* the first count of bytes of buf that end with the line ending e
Occurs(buf, e) == \E k \in 1..Len(buf) : EndsWith(SubSeq(buf, 1, k), e)

FirstEnd(buf, e) ==
  CHOOSE k \in 1..Len(buf) :
    /\ EndsWith(SubSeq(buf, 1, k), e)
    /\ \A j \in 1..(k - 1) : ~EndsWith(SubSeq(buf, 1, j), e)

\* C2: whatever the length of the line ending (two bytes, the prompt, three
\* bytes, one byte), when the channel holds the line ending read_line stops
\* right after its first occurrence, returns the bytes before it and leaves
\* the bytes after it in the channel.
C2_ReadLineAnyEnding ==
  (/\ method = "read_line"
   /\ pc \in {"done", "hung"}
   /\ Occurs(args.pending, args.line_ending)) =>
    LET k == FirstEnd(args.pending, args.line_ending)
    IN /\ pc = "done"
       /\ err = NoError
       /\ result = SubSeq(args.pending, 1, k - Len(args.line_ending))
       /\ rx = From(args.pending, k)

\* the writes of a write_file that succeeds
ExpectedWrites(filename, d, B) ==
  <<Answer(CloseCmd), Answer(OpenWCmd(filename))>>
    \o [i \in 1..NumBlocks(Len(d), B) |-> Answer(WriteCmd(Slice(d, i - 1, B)))]
    \o <<Answer(CloseCmd)>>

\* C3: a write_file of L bytes with block size B fails only on an answer
\* that is not true; what it writes is always a beginning of: the close,
\* the open, ceil(L/B) write-block requests of which the i-th carries bytes
\* [i*B, min((i+1)*B, L)) of data, and the close; when it returns it has
\* written all of them (for L = 0 the close, the open and the close).
C3_WriteFileBlocks ==
  (method = "write_file" /\ InSync) =>
    /\ pc # "hung"
    /\ IsPrefix(sent, ExpectedWrites(args.filename, args.data, args.block_size))
    /\ (pc = "done" /\ err # NoError) =>
         err.type = "IOError" /\ last.response # Answer(TRUE_)
    /\ (pc = "done" /\ err = NoError) =>
         sent = ExpectedWrites(args.filename, args.data, args.block_size)

C3_Witness ==
  /\ method = "write_file" /\ pc = "done" /\ InSync /\ err = NoError
  /\ Len(args.data) = 3 /\ args.block_size = 2
  /\ Len(sent) = 5
  /\ sent[3] = Answer(WriteCmd(SubSeq(args.data, 1, 2)))
  /\ sent[4] = Answer(WriteCmd(SubSeq(args.data, 3, 3)))

\* C4: once write_file has read nil as the answer to its open request it
\* has failed with an error, and the close and the open request are all it
\* has written.
C4_WriteFileUnopenable ==
  (/\ method = "write_file" /\ InSync
   /\ Len(sent) = 2
   /\ pc \notin {"echo", "wf_opened"}
   /\ last.response = Answer(NIL)) =>
    /\ pc = "done"
    /\ err.type = "IOError"
    /\ sent = <<Answer(CloseCmd), Answer(OpenWCmd(args.filename))>>

C4_Witness ==
  /\ method = "write_file" /\ pc = "done" /\ InSync
  /\ args.data # <<>>
  /\ Len(sent) = 2
  /\ last.response = Answer(NIL)
  /\ err.type = "IOError"

\* C5: once write_file has read an answer to a write-block request that is
\* not exactly true it has failed with an error that carries the answer; the
\* failed request is the last thing it has written, so no further block and
\* no file.close() follow.
C5_WriteFileUnwriteable ==
  (/\ method = "write_file" /\ InSync
   /\ Len(sent) >= 3
   /\ StartsWith(Last(sent), WritePrefix)
   /\ pc \notin {"echo", "wf_written"}
   /\ last.response # Answer(TRUE_)) =>
    /\ pc = "done"
    /\ err.type = "IOError"
    /\ Answer(err.arg) = last.response
    /\ \A i \in 2..Len(sent) : sent[i] # Answer(CloseCmd)

C5_Witness ==
  /\ method = "write_file" /\ pc = "done" /\ InSync
  /\ Len(args.data) = 3 /\ args.block_size = 1
  /\ Len(sent) = 4
  /\ last.response = Answer(FALSE_)
  /\ err = [type |-> "IOError", arg |-> FALSE_]
  /\ remote.open = "w"

\* C6: every read-block statement of read_file asks for min(remaining
\* size, block_size) bytes, and a read_file that returns has sent
\* ceil(S/B) of them for the size S the remote reported.
C6_ReadFileBlockIsMin ==
  (method = "read_file" /\ InSync) =>
    /\ pc = "rf_read" =>
         /\ block = Min(size + block, args.block_size)
         /\ Last(sent) = Answer(ReadCmd(block))
    /\ (pc = "done" /\ err = NoError) =>
         Cardinality(ReadRequests) = NumBlocks(seen.size, args.block_size)

\* C7: a read_file that found the file and opened it returns the raw bytes
\* the remote sent after the echoes of the read-block statements, all of
\* them and in order, as many as the size lookup reported, whatever the
\* bytes are.
C7_ReadFileReturnsRaw ==
  (/\ method = "read_file" /\ InSync
   /\ pc \in {"done", "hung"}
   /\ err.type # "IOError") =>
    /\ pc = "done"
    /\ err = NoError
    /\ result = seen.raw
    /\ Len(result) = seen.size

\* C8: the last command a successful read_file has written is file.close().
C8_ReadFileCloses ==
  (method = "read_file" /\ InSync /\ pc = "done" /\ err = NoError) =>
    /\ Len(sent) >= 4
    /\ Last(sent) = Answer(CloseCmd)

\* C9: once read_file has read nil as the answer to the size lookup it has
\* failed and has written the close and the lookup only; once it has read
\* an answer to the open that is not exactly true it has failed and has
\* written the close, the lookup and the open only.
C9_ReadFileGivesUp ==
  (method = "read_file" /\ InSync) =>
    /\ (/\ Len(sent) = 2
        /\ pc \notin {"echo", "rf_sized"}
        /\ last.response = Answer(NIL)) =>
         pc = "done" /\ err.type = "IOError"
    /\ (/\ Len(sent) = 3
        /\ pc \notin {"echo", "rf_opened"}
        /\ last.response # Answer(TRUE_)) =>
         pc = "done" /\ err.type = "IOError"
    /\ Len(sent) >= 3 => sent[3] = Answer(OpenRCmd(args.filename))
    /\ Len(sent) >= 3 => seen.size >= 0

C9_Witness ==
  /\ method = "read_file" /\ pc = "done" /\ InSync
  /\ Len(sent) = 3
  /\ seen.size = 2
  /\ last.response = Answer(FALSE_)
  /\ err.type = "IOError"

\* the mapping of the directory d
DirMap(d) ==
  [n \in {d[i].name : i \in 1..Len(d)} |->
     (CHOOSE e \in {d[i] : i \in 1..Len(d)} : e.name = n).size]

\* C10: when the lines of the listing are LEN TAB NAME SIZE, the name of
\* LEN bytes right after the first tab and the size right after the name,
\* list_files returns the mapping of the names to the sizes, also for a
\* name that begins with a tab.
C10_ListFilesJoined ==
  \A d \in Directories :
    (/\ method = "list_files" /\ InSync
     /\ pc = "done"
     /\ Len(sent) = 2
     /\ last.response = JoinedLines(d)) =>
      /\ err = NoError
      /\ result = DirMap(d)

\* the number of lines in the bytes b
NumLines(b) == Cardinality({i \in 1..(Len(b) - 1) : SubSeq(b, i, i + 1) = CRLF})

\* C11: list_files writes the count statement, then the dump statement, and
\* nothing else; it reads one line for the count, and that is num_files;
\* it sends the dump statement also when the count is 0; after the echo of
\* the dump it reads one line per pass and never more than num_files; when
\* it returns it has read exactly the num_files lines the remote sent, and
\* for a count of 0 it has read none and returns the empty mapping.
C11_ListFilesCounts ==
  (method = "list_files" /\ InSync) =>
    /\ pc # "hung"
    /\ IsPrefix(sent, <<Answer(CountCmd), Answer(DumpCmd)>>)
    /\ reads <= 1 + num_files
    /\ pc = "lf_dump" => reads = 1 /\ last.response = Answer(IntToStr(num_files))
    /\ pc = "lf_loop" => reads = 1 + file /\ NumLines(last.response) = num_files
    /\ (pc = "done" /\ err = NoError) =>
         /\ sent = <<Answer(CountCmd), Answer(DumpCmd)>>
         /\ NumLines(last.response) = num_files
         /\ reads = 1 + num_files
         /\ rx = <<>>
         /\ num_files = 0 => result = EmptyDict

C11_Witness ==
  /\ method = "list_files" /\ pc = "done" /\ InSync /\ err = NoError
  /\ num_files = 2
  /\ reads = 3
  /\ Cardinality(DOMAIN result) = 2

\* C12: the first command of remove_file and of dofile is the size lookup
\* for the file name; once nil is read as its answer the method has failed
\* with an error and the lookup is all it has written, so a second command
\* is only written after an answer that is not nil; remove_file then writes
\* the remove statement and nothing more, and the lookup answer is the only
\* line it reads besides the echoes.
C12_LookupFirst ==
  (method \in {"remove_file", "dofile"} /\ InSync) =>
    /\ pc # "hung"
    /\ IsPrefix(sent, <<Answer(SizeCmd(args.filename)),
                        Answer(IF method = "dofile" THEN DofileCmd(args.filename)
                                                    ELSE RemoveCmd(args.filename))>>)
    /\ (/\ Len(sent) = 1
        /\ pc \notin {"echo", "rm_sized", "df_sized"}
        /\ last.response = Answer(NIL)) =>
         pc = "done" /\ err.type = "IOError"
    /\ Len(sent) = 2 => seen.size >= 0
    /\ method = "remove_file" =>
         /\ reads <= 1
         /\ pc = "done" =>
              /\ reads = 1
              /\ rx = <<>>
              /\ err = NoError => Len(sent) = 2

C12_Witness ==
  /\ method = "remove_file" /\ pc = "done" /\ InSync /\ err = NoError
  /\ sent = <<Answer(SizeCmd(args.filename)), Answer(RemoveCmd(args.filename))>>
  /\ seen.size = 2
  /\ reads = 1

\* C13: rename_file(old, new) writes the rename request and nothing else,
\* and reads one line besides the echo; when it is over it has returned
\* without an error if that line was true and has failed with an error for
\* any other line, nil among them.
C13_RenameOnlyOnTrue ==
  (method = "rename_file" /\ InSync) =>
    /\ pc # "hung"
    /\ IsPrefix(sent, <<Answer(RenameCmd(args.filename, args.new))>>)
    /\ reads <= 1
    /\ pc = "done" =>
         /\ Len(sent) = 1
         /\ reads = 1
         /\ rx = <<>>
         /\ err = NoError <=> last.response = Answer(TRUE_)
         /\ err # NoError => err.type = "IOError"

C13_Witness ==
  /\ method = "rename_file" /\ pc = "done" /\ InSync
  /\ sent = <<Answer(RenameCmd(args.filename, args.new))>>
  /\ last.response = Answer(NIL)
  /\ err.type = "IOError"
  /\ reads = 1

\* C14: for a file that exists, once dofile has written the execute
\* statement, absorbed its echo and gone on, it has returned what the remote
\* printed after the echo up to the first prompt, with the CRLFs in it and
\* without the prompt, and the prompt is read off the channel.
C14_DofileOutput ==
  (/\ method = "dofile" /\ InSync
   /\ Len(sent) = 2
   /\ pc \notin {"echo", "df_read"}) =>
    LET k == FirstEnd(last.response, PROMPT)
    IN /\ pc = "done"
       /\ err = NoError
       /\ result = SubSeq(last.response, 1, k - Len(PROMPT))
       /\ rx = From(last.response, k)

\* the bytes of b before its first prompt, and those after it
BeforePrompt(b) == SubSeq(b, 1, FirstEnd(b, PROMPT) - Len(PROMPT))

AfterPrompt(b) == From(b, FirstEnd(b, PROMPT))

Decodable(b) == Utf8Decode(b).ok

C16_VersionFirstTwo ==
  (/\ method = "get_version" /\ InSync
   /\ cli.stage \in {"", "version"}
   /\ pc = "done") =>
    LET fields == Split(DropLast2(last.response), TAB)
        major == ParseInt(fields[1])
        minor == ParseInt(fields[2])
    IN /\ sent = <<Answer(InfoCmd)>>
       /\ reads = 1
       /\ (Len(fields) >= 2 /\ major.ok /\ minor.ok) =>
            /\ err = NoError
            /\ result = <<major.value, minor.value>>

\* the versions from 1.4 up to, and without, 2.0
InRange(version) == version[1] = 1 /\ version[2] >= 4

\* the method of the session that an action of the command line stands for
MethodOf(action) ==
  CASE action = "write" -> "write_file"
    [] action = "read" -> "read_file"
    [] action = "list" -> "list_files"
    [] action = "delete" -> "remove_file"
    [] action = "move" -> "rename_file"
    [] action = "format" -> "format"
    [] action = "dofile" -> "dofile"
    [] action = "restart" -> "restart"

\* C17: a run of main first calls get_version, which writes =node.info()
\* and nothing else.  When the version it returns is outside 1.4 <= v < 2.0
\* the run is over with an error and no other method of the session was
\* called, so no further command was written; a method other than
\* get_version only runs after a version inside the range, and after such
\* a version the check has raised nothing and the method of the action was
\* called (for --move the call itself fails, line 293).
C17_VersionGate ==
  cli.stage # "" =>
    /\ cli.stage = "version" =>
         method = "get_version" /\ IsPrefix(sent, <<Answer(InfoCmd)>>)
    /\ (cli.version # <<>> /\ ~InRange(cli.version)) =>
         /\ cli.stage = "exit" /\ cli.code = 1
         /\ pc = "done" /\ err.type = "Exception"
         /\ method = "get_version"
         /\ sent = <<Answer(InfoCmd)>>
    /\ method # "get_version" => cli.version # <<>> /\ InRange(cli.version)
    /\ (cli.version # <<>> /\ InRange(cli.version)) =>
         /\ err.type # "Exception"
         /\ cli.action # "move" => method = MethodOf(cli.action)

C17_Witness ==
  /\ cli.stage = "exit"
  /\ cli.action = "format"
  /\ cli.version = <<2, 0>>
  /\ err.type = "Exception"
  /\ sent = <<Answer(InfoCmd)>>

\* the operations of a session
SessionOps == {"get_version", "write_file", "read_file", "list_files",
               "remove_file", "rename_file", "format", "dofile", "restart"}

\* C18: when an operation of the session is over, by a return or by the
\* error it raises on a sentinel, the channel holds no unread byte and the
\* exchange is finished: a read_file that returns has written its closing
\* file.close(), and a dofile of an existing file has read the output it
\* asked for.
C18_ChannelDrained ==
  (/\ method \in SessionOps /\ InSync
   /\ pc = "done") =>
    /\ err.type \in {"none", "IOError"} =>
         /\ rx = <<>>
         /\ (method = "read_file" /\ err = NoError) => Last(sent) = Answer(CloseCmd)
    /\ (method = "dofile" /\ Len(sent) = 2) => rx = <<>>

\* C19: a read that gets fewer bytes than it asked for fails.  On a port
\* whose reads give up after a while read_line is therefore never left
\* reading for ever (the commands having been written whole), and the
\* bytes read_file holds after a block has been read are as many as its
\* read-block statements asked for.
C19_ShortReadFails ==
  /\ (pc = "hung" /\ AllWritten) => timeout # "some"
  /\ (method = "read_file" /\ InSync /\ pc = "rf_loop") =>
       Len(data) = seen.size - size

\* C20: once the channel has reported a written length other than the
\* length of the command, send_command has failed with an error; it does
\* not go on to read the echo.
C20_ShortWriteFails ==
  (sent # <<>> /\ last.accepted # Len(Last(sent))) =>
    /\ pc = "done"
    /\ err.type = "IOError"

UpperHexDigits == Str(<<"0","1","2","3","4","5","6","7","8","9","A","B","C","D","E","F">>)

IsHexDigit(c) == \E i \in 1..16 : HexDigits[i] = c \/ UpperHexDigits[i] = c

HexValue(c) == (CHOOSE i \in 1..16 : HexDigits[i] = c \/ UpperHexDigits[i] = c) - 1

\* the bytes a quoted body stands for when its escapes are undone: a
\* backslash with the quote, the backslash, t, n, r or x and two hex digits
\* after it; a bare delimiter or a dangling backslash stands for nothing
RECURSIVE Unescape(_, _)
Unescape(s, quote) ==
  IF s = <<>> THEN [ok |-> TRUE, bytes |-> <<>>]
  ELSE IF Head(s) = quote THEN [ok |-> FALSE, bytes |-> <<>>]
  ELSE IF Head(s) # BACKSLASH
  THEN LET r == Unescape(Tail(s), quote)
       IN [ok |-> r.ok, bytes |-> <<Head(s)>> \o r.bytes]
  ELSE IF Len(s) < 2 THEN [ok |-> FALSE, bytes |-> <<>>]
  ELSE IF s[2] \in {QUOTE, DQUOTE, BACKSLASH}
  THEN LET r == Unescape(From(s, 2), quote)
       IN [ok |-> r.ok, bytes |-> <<s[2]>> \o r.bytes]
  ELSE IF s[2] \in {Ord("t"), Ord("n"), Ord("r")}
  THEN LET r == Unescape(From(s, 2), quote)
           c == IF s[2] = Ord("t") THEN TAB ELSE IF s[2] = Ord("n") THEN LF ELSE CR
       IN [ok |-> r.ok, bytes |-> <<c>> \o r.bytes]
  ELSE IF s[2] = Ord("x") /\ Len(s) >= 4 /\ IsHexDigit(s[3]) /\ IsHexDigit(s[4])
  THEN LET r == Unescape(From(s, 4), quote)
       IN [ok |-> r.ok, bytes |-> <<HexValue(s[3]) * 16 + HexValue(s[4])>> \o r.bytes]
  ELSE [ok |-> FALSE, bytes |-> <<>>]

\* what stands between prefix and suffix in a line written
Between(line, prefix, suffix) ==
  SubSeq(line, Len(prefix) + 1, Len(line) - Len(suffix) - Len(CRLF))

RenameSeparator == Str(<<",", " ">>)

\* the ways to cut the arguments of a rename request into two literals
RenameCuts(line) ==
  LET a == Between(line, RenamePrefix, Str(<<")">>))
  IN {[old |-> SubSeq(a, 1, k - 1), new |-> From(a, k + 1)] :
        k \in {j \in 2..(Len(a) - 2) : SubSeq(a, j, j + 1) = RenameSeparator}}

\* the literals in the lines written so far, each with the bytes it was
\* made for: the filename in an open, lookup, remove or dofile statement,
\* the block in a write-block request
Placed ==
  {[lit |-> Between(sent[i], OpenPrefix, OpenWSuffix), for |-> args.filename] :
     i \in {j \in 1..Len(sent) : StartsWith(sent[j], OpenPrefix)}}
  \cup
  {[lit |-> Between(sent[i], SizePrefix, Str(<<"]">>)), for |-> args.filename] :
     i \in {j \in 1..Len(sent) : StartsWith(sent[j], SizePrefix)}}
  \cup
  {[lit |-> Between(sent[i], RemovePrefix, Str(<<")">>)), for |-> args.filename] :
     i \in {j \in 1..Len(sent) : StartsWith(sent[j], RemovePrefix)}}
  \cup
  {[lit |-> Between(sent[i], DofilePrefix, Str(<<")">>)), for |-> args.filename] :
     i \in {j \in 1..Len(sent) : StartsWith(sent[j], DofilePrefix)}}
  \cup
  {[lit |-> Between(sent[i], WritePrefix, Str(<<")">>)),
    for |-> Slice(args.data, i - 3, args.block_size)] :
     i \in {j \in 1..Len(sent) : StartsWith(sent[j], WritePrefix)}}

IsAscii(s) == \A i \in 1..Len(s) : s[i] < 128

\* lit is an ASCII literal in single quotes that stands for b
RoundTrips(lit, b) ==
  /\ IsAscii(lit)
  /\ Len(lit) >= 2
  /\ Head(lit) = QUOTE
  /\ Last(lit) = QUOTE
  /\ LET u == Unescape(SubSeq(lit, 2, Len(lit) - 1), QUOTE)
     IN u.ok /\ u.bytes = b

\* C21: every literal the session has placed in a command for a byte
\* sequence b (a filename or a data block) is ASCII, starts and ends with a
\* single quote, and stands for exactly b when its escapes are undone.
C21_LiteralRoundTrip ==
  /\ \A p \in Placed : RoundTrips(p.lit, p.for)
  /\ \A i \in 1..Len(sent) : StartsWith(sent[i], RenamePrefix) =>
       \E c \in RenameCuts(sent[i]) :
         RoundTrips(c.old, args.filename) /\ RoundTrips(c.new, args.new)

\* one byte of a literal as the encoder of the specification writes it
EscapedByte(c) ==
  IF c = QUOTE \/ c = BACKSLASH THEN <<BACKSLASH, c>>
  ELSE IF c >= 32 /\ c <= 126 THEN <<c>>
  ELSE <<BACKSLASH, Ord("x"), UpperHexDigits[(c \div 16) + 1], UpperHexDigits[(c % 16) + 1]>>

Literal(b) == <<QUOTE>> \o Concat([i \in 1..Len(b) |-> EscapedByte(b[i])]) \o <<QUOTE>>

\* C22: in every literal placed in a command a byte in 0x20-0x7E other than
\* the apostrophe and the backslash stands for itself, these two have a
\* backslash before them, and every other byte is \xHH with two uppercase
\* hex digits, all between single quotes (the empty input gives '').
C22_LiteralEscapes ==
  /\ \A p \in Placed : p.lit = Literal(p.for)
  /\ \A i \in 1..Len(sent) : StartsWith(sent[i], RenamePrefix) =>
       Between(sent[i], RenamePrefix, Str(<<")">>))
         = Literal(args.filename) \o RenameSeparator \o Literal(args.new)

\* C23: flush writes nothing; when it returns the channel holds no pending
\* byte and every byte that was pending at the call has been read and
\* dropped; called on an empty input buffer it returns without a read.
C23_FlushOnlyReads ==
  method = "flush" =>
    /\ sent = <<>>
    /\ pc \in {"fl_check", "done"}
    /\ pc = "done" =>
         /\ err = NoError /\ result = None
         /\ InWaiting(rx) = 0
         /\ IsPrefix(args.pending, seen.raw)
    /\ args.pending = <<>> => reads = 0

C23_Witness ==
  /\ method = "flush" /\ pc = "done"
  /\ args.pending = Str(<<"f","o","o">>)
  /\ seen.raw = Str(<<"f","o","o">>) \o <<255>>
  /\ reads = 2
  /\ rx = <<>>

\* C24: a run of main enters the port once, before anything else, and
\* leaves it once, after the entry, on every way out of the run: after a
\* return as after an exception of get_version, of the version check or of
\* the operation; the exception is handed to the port.
C24_ScopedRelease ==
  /\ cli.stage \in {"version", "action"} =>
       cli.port = <<[call |-> "enter", exc |-> "none"]>>
  /\ cli.stage = "exit" =>
       cli.port = <<[call |-> "enter", exc |-> "none"],
                    [call |-> "exit", exc |-> err.type]>>
  /\ cli.stage = "" => cli.port = <<>>

C24_Witness ==
  /\ cli.stage = "exit"
  /\ cli.action = "read"
  /\ method = "read_file"
  /\ err.type = "IOError"
  /\ Len(cli.port) = 2
  /\ cli.port[2] = [call |-> "exit", exc |-> "IOError"]

\* the arguments the method of an action is to be called with
ArgsOf(action, argv) ==
  IF action = "write"
  THEN {[NoArgs EXCEPT !.filename = argv[1], !.data = d,
                       !.block_size = DefaultBlockSize] : d \in StdinData}
  ELSE IF action = "read"
  THEN {[NoArgs EXCEPT !.filename = argv[1], !.block_size = DefaultBlockSize]}
  ELSE IF action \in {"delete", "dofile"} THEN {[NoArgs EXCEPT !.filename = argv[1]]}
  ELSE IF action = "move" THEN {[NoArgs EXCEPT !.filename = argv[1], !.new = argv[2]]}
  ELSE {NoArgs}

\* C25: once get_version has returned a compatible version, the run of
\* main has called the one method that stands for its action (rename_file
\* for --move) with the names and data of the command line, and no other;
\* when that method has returned the run is over with exit code 0.
C25_Dispatch ==
  (cli.version # <<>> /\ InRange(cli.version)) =>
    /\ cli.stage \in {"action", "exit"}
    /\ method = MethodOf(cli.action)
    /\ args \in ArgsOf(cli.action, cli.argv)
    /\ cli.stage = "action" => cli.code = -1
    /\ (cli.stage = "exit" /\ err = NoError) => cli.code = 0
    /\ cli.stage = "exit" => pc = "done"

\* C26: the first command write_file and read_file write is file.close(),
\* so the open request and the size lookup come after it; no line is read
\* between the echo of this close and the next command.
C26_CloseFirst ==
  method \in {"write_file", "read_file"} =>
    /\ sent # <<>> => sent[1] = Answer(CloseCmd)
    /\ pc \in {"wf_close", "rf_close"} => sent = <<>>
    /\ \A i \in 1..Len(sent) :
         (StartsWith(sent[i], OpenPrefix) \/ StartsWith(sent[i], SizePrefix)) => i > 1
    /\ Len(sent) = 1 => reads = 0
    /\ (Len(sent) = 2 /\ pc = "echo") => reads = 0
    /\ (Len(sent) >= 2 /\ AllWritten) =>
         sent[2] = IF method = "write_file" THEN Answer(OpenWCmd(args.filename))
                   ELSE Answer(SizeCmd(args.filename))

C26_Witness ==
  /\ cli.stage = "action"
  /\ method = "write_file"
  /\ Len(sent) = 2
  /\ sent[1] = Answer(CloseCmd)
  /\ sent[2] = Answer(OpenWCmd(args.filename))
  /\ pc = "echo"
  /\ reads = 0

\* C27: in an operation called on an empty channel, whose commands the
\* channel takes whole, what lies in the channel right after a write is the
\* echo of the command written and its response and nothing from before,
\* and no read is left waiting for bytes the remote does not send.
C27_StrictAlternation ==
  (method \in SessionOps /\ InSync) =>
    /\ pc = "echo" => rx = last.prompt \o last.echo \o last.response
    /\ pc # "hung"

\* C28: in the block loop of read_file the remaining size is never
\* negative, every read-block statement has lowered it by at least one
\* (so there are at most as many statements as the file has bytes), and it
\* is 0 when read_file returns.
C28_ReadFileLoopEnds ==
  method = "read_file" =>
    /\ size >= 0
    /\ seen.size >= 0 => Cardinality(ReadRequests) + size <= seen.size
    /\ (pc = "done" /\ err = NoError) => size = 0

\* C29: once write_file has read the answer to its open request it has
\* failed exactly when the answer is nil, and after any other answer, false
\* as well as true, it is in its block loop without an error; once
\* read_file has read the answer to its open request it has gone on
\* exactly when the answer is true and has failed after any other.
C29_OnlyNilFailsWriteOpen ==
  /\ (/\ method = "write_file" /\ InSync
      /\ Len(sent) = 2
      /\ pc \notin {"echo", "wf_opened"}) =>
       IF last.response = Answer(NIL)
       THEN pc = "done" /\ err.type = "IOError"
       ELSE pc = "wf_loop" /\ err = NoError
  /\ (/\ method = "read_file" /\ InSync
      /\ Len(sent) = 3
      /\ pc \notin {"echo", "rf_opened"}) =>
       IF last.response = Answer(TRUE_)
       THEN pc \in {"rf_loop", "done"} /\ err.type # "IOError"
       ELSE pc = "done" /\ err.type = "IOError"

C29_Witness ==
  /\ method = "write_file" /\ InSync
  /\ Len(sent) = 2
  /\ last.response = Answer(FALSE_)
  /\ pc = "wf_loop"
  /\ data # <<>>
  /\ err = NoError

=============================================================================
